---- MODULE Spec2Model ----
(***************************************************************************)
(* Jump-and-platform simulation of jump_minigame: GameEngine               *)
(* (src/src/game/engine.ts), Player (src/src/game/player.ts) and Platform  *)
(* (src/unnamed/part_006).                                                 *)
(*                                                                         *)
(* Units.  Lengths are integers in hundredths of a world unit (2.5 is      *)
(* 250).  Times are integers in milliseconds.  A progress value that the   *)
(* code keeps as a fraction in [0,1] is kept as its numerator:             *)
(*   jumpProgress       = elapsed ms            over jumpDuration (600)    *)
(*   fallProgress       = elapsed ms            over fallDuration (800)    *)
(*   cameraMoveProgress = CAMERA_SPEED * ms     over 10*cameraMoveDistance *)
(*   power              = min(ms, MAX_PRESS_TIME) over MAX_PRESS_TIME      *)
(* The height of the observed platform is in millionths of a unit and its  *)
(* velocity in thousandths of a unit per second, so that a frame of whole  *)
(* milliseconds moves it by a whole number.                                *)
(***************************************************************************)
EXTENDS Integers, Sequences, FiniteSets, TLC

VARIABLES
    \* GameEngine static fields
    instanceDestroyed, GLOBAL_GAME_STARTED, currentContainer,
    \* GameEngine instance fields
    isGameStarted, isGameOver, isPressing, pressStartTime,
    cameraMoving, cameraMoveProgress, cameraMoveDistance,
    score, currentPlatformIndex, targetPlatformIndex, platforms,
    \* camera and ground followers of GameEngine: camera.position and
    \* ground.position with the start and target of their transitions
    cameraPosition, cameraStartPosition, cameraTargetPosition,
    ground, isGroundMoving, groundMoveProgress, groundMoveDuration,
    groundStartPosition, groundTargetPosition,
    \* Player fields
    playerPos, isJumping, isCharging, jumpProgress, jumpPower,
    jumpStartPosition, jumpTargetPosition, onJumpComplete,
    playerPlatforms, isFalling, fallProgress, fallDirection, fallStartY,
    customModel,
    \* one Platform object observed frame by frame (position, footprint,
    \* fall state, bounding box) and the last isPointOnPlatform call made
    \* on it
    plat, judged,
    \* environment: wall clock (Date.now), press listeners added, the
    \* container holding listeners and buttons is in the document,
    \* containers mounted so far
    now, listenersAdded, uiAttached, containersUsed

engineVars == <<isGameStarted, isGameOver, isPressing, pressStartTime,
                cameraMoving, cameraMoveProgress, cameraMoveDistance,
                score, currentPlatformIndex, targetPlatformIndex, platforms>>
playerVars == <<playerPos, isJumping, isCharging, jumpProgress, jumpPower,
                jumpStartPosition, jumpTargetPosition, onJumpComplete,
                playerPlatforms, isFalling, fallProgress, fallDirection,
                fallStartY, customModel>>
staticVars == <<instanceDestroyed, GLOBAL_GAME_STARTED, currentContainer>>
envVars == <<now, listenersAdded, uiAttached, containersUsed>>
platformVars == <<plat, judged>>
followerVars == <<cameraPosition, cameraStartPosition, cameraTargetPosition,
                  ground, isGroundMoving, groundMoveProgress,
                  groundMoveDuration, groundStartPosition,
                  groundTargetPosition>>
vars == <<staticVars, engineVars, playerVars, envVars, platformVars,
          followerVars>>

----------------------------------------------------------------------------
(* Bounds of the model *)

\* the run is explored until the platform list has this many platforms
MaxPlatforms == 4
\* the wall clock is explored up to this many milliseconds
MaxTime == 1600
\* number of containers the component is mounted into
MaxContainers == 2
\* frame deltas (ms) delivered by the clock
DeltaSet == {200, 400}
\* values of Math.random() used for a platform footprint, in hundredths
RandomSizeSet == {60}
\* y offset (hundredths) of a replacement character model
ModelYSet == {0}
\* values of Math.random() (hundredths) for the footprint of the observed
\* platform, and for its re-randomised bounding box
PlatformSizeSet == {0, 98}
BoxSizeSet == {20, 80}
\* a held press is explored until the wall clock shows this many
\* milliseconds, with these frame deltas (ms)
MaxHold == 2500
HoldDeltaSet == {400, 1000}
\* frame deltas (ms) of a display refreshing about 60 times a second
FrameDeltaSet == {16, 17}

----------------------------------------------------------------------------
(* Program constants *)

MAX_PRESS_TIME == 2000
CAMERA_SPEED == 15
JUMP_DURATION == 600
FALL_DURATION == 800
JUMP_HEIGHT == 400
TOLERANCE == 15
MIN_JUMP_RATIO_X10 == 6
MAX_JUMP_RATIO_X10 == 30
MIN_DISTANCE == 4
MAX_DISTANCE == 7
START_SIZE == 250
BASE_SIZE == 200
PLATFORM_TOP == 100
\* Platform fall: units per second, units per second squared, tenths,
\* thousandths of a unit per second, units
INITIAL_VELOCITY == -10
GRAVITY == -20
BOUNCE_FACTOR_X10 == 2
BOUNCE_THRESHOLD_X1000 == 100
SPAWN_Y == 5

\* camera.position set by the constructor, hundredths of a unit
CAMERA_X == 800
CAMERA_Y == 1200
CAMERA_Z == 800

Abs(n) == IF n < 0 THEN -n ELSE n
Sign(n) == IF n > 0 THEN 1 ELSE IF n < 0 THEN -1 ELSE 0
Max(a, b) == IF a > b THEN a ELSE b
Min(a, b) == IF a < b THEN a ELSE b

Vec(x, y, z) == [x |-> x, y |-> y, z |-> z]
NoCallback == [set |-> FALSE, deltaX |-> 0, deltaZ |-> 0, dir |-> Vec(0, 0, 0),
               targetPlatform |-> 0, targetPosition |-> Vec(0, 0, 0)]

----------------------------------------------------------------------------
(* Platform *)

\* new Platform(isStart) followed by setPosition(x, y, z)
NewPlatform(isStart, x, z, rx, rz) ==
    [x |-> x, z |-> z,
     sizeX |-> IF isStart THEN START_SIZE ELSE BASE_SIZE + rx,
     sizeZ |-> IF isStart THEN START_SIZE ELSE BASE_SIZE + rz,
     isStart |-> isStart]

\* landing test whose rectangle excludes its border
IsPointOnPlatform_Exclusive(p, pt) ==
    /\ 2 * pt.x > 2 * p.x - p.sizeX - 2 * TOLERANCE
    /\ 2 * pt.x < 2 * p.x + p.sizeX + 2 * TOLERANCE
    /\ 2 * pt.z > 2 * p.z - p.sizeZ - 2 * TOLERANCE
    /\ 2 * pt.z < 2 * p.z + p.sizeZ + 2 * TOLERANCE

\* landing test that reads the footprint from the bounding box
IsPointOnPlatform_BoundingBox(p, pt) ==
    /\ 2 * pt.x >= 2 * p.x - p.boxX - 2 * TOLERANCE
    /\ 2 * pt.x <= 2 * p.x + p.boxX + 2 * TOLERANCE
    /\ 2 * pt.z >= 2 * p.z - p.boxZ - 2 * TOLERANCE
    /\ 2 * pt.z <= 2 * p.z + p.boxZ + 2 * TOLERANCE

\* Platform.isPointOnPlatform: inclusive rectangle test with tolerance, on
\* both horizontal axes; compared doubled so that half sizes stay integers
IsPointOnPlatform(p, pt) ==
    /\ 2 * pt.x >= 2 * p.x - p.sizeX - 2 * TOLERANCE
    /\ 2 * pt.x <= 2 * p.x + p.sizeX + 2 * TOLERANCE
    /\ 2 * pt.z >= 2 * p.z - p.sizeZ - 2 * TOLERANCE
    /\ 2 * pt.z <= 2 * p.z + p.sizeZ + 2 * TOLERANCE

\* next platform offset on both horizontal axes
NextPlatform_Diagonal(list, isXDirection, distance, rx, rz) ==
    LET last == list[Len(list)]
    IN  NewPlatform(FALSE, last.x - 100 * distance, last.z - 100 * distance,
                    rx, rz)

\* the platform GameEngine.generateNextPlatform creates after the last one
NextPlatform(list, isXDirection, distance, rx, rz) ==
    LET last == list[Len(list)]
    IN  NewPlatform(FALSE,
                    last.x + (IF isXDirection THEN -(100 * distance) ELSE 0),
                    last.z + (IF isXDirection THEN 0 ELSE -(100 * distance)),
                    rx, rz)

\* Platform.updateBoundingBox: the box is rebuilt around the mesh position
\* from a footprint drawn afresh (bx, bz), not from the mesh geometry
UpdateBoundingBox(p, bx, bz) ==
    [p EXCEPT !.boxX = IF p.isStart THEN START_SIZE ELSE BASE_SIZE + bx,
              !.boxZ = IF p.isStart THEN START_SIZE ELSE BASE_SIZE + bz]

\* a Platform object with its fall state: y in millionths of a unit,
\* velocity in thousandths of a unit per second
PlatformObject(base, y, bx, bz) ==
    UpdateBoundingBox([x |-> base.x, z |-> base.z, sizeX |-> base.sizeX,
                       sizeZ |-> base.sizeZ, isStart |-> base.isStart,
                       y |-> y, isFalling |-> FALSE, velocity |-> 0,
                       boxX |-> 0, boxZ |-> 0], bx, bz)

\* Platform.startFalling
StartFalling(p) ==
    [p EXCEPT !.isFalling = TRUE, !.velocity = 1000 * INITIAL_VELOCITY]

\* the start platform as setupPlatforms places it
StartPlatformObject == PlatformObject(NewPlatform(TRUE, 0, 0, 0, 0), 0, 0, 0)

\* no isPointOnPlatform call has been made
NotJudged == [called |-> FALSE, point |-> Vec(0, 0, 0), result |-> FALSE,
              repeated |-> FALSE, previous |-> FALSE]

----------------------------------------------------------------------------
(* Charge and trajectory (GameEngine.onPressEnd, GameEngine.jump) *)

\* power that grows with the hold time without limit
Power_Unclamped(pressDuration) == pressDuration

\* power = Math.min(pressDuration / MAX_PRESS_TIME, 1), as the numerator over
\* MAX_PRESS_TIME
Power(pressDuration) == Min(pressDuration, MAX_PRESS_TIME)

\* jump distance that ignores the power
JumpDistance_Fixed(platformDistance, power) == platformDistance

\* jumpDistance = platformDistance * (minJumpRatio
\*                  + (maxJumpRatio - minJumpRatio) * power)
JumpDistance(platformDistance, power) ==
    (platformDistance
       * (MIN_JUMP_RATIO_X10 * MAX_PRESS_TIME
            + (MAX_JUMP_RATIO_X10 - MIN_JUMP_RATIO_X10) * power))
    \div (10 * MAX_PRESS_TIME)

\* jump plan that leaves the other horizontal coordinate as it is
JumpPlan_NoAlign(power) ==
    LET currentPlatform == platforms[currentPlatformIndex + 1]
        targetPlatform == platforms[targetPlatformIndex + 1]
        deltaX == targetPlatform.x - currentPlatform.x
        deltaZ == targetPlatform.z - currentPlatform.z
        alongX == Abs(deltaX) > Abs(deltaZ)
        direction == IF alongX THEN Vec(Sign(deltaX), 0, 0)
                     ELSE Vec(0, 0, Sign(deltaZ))
        platformDistance == Max(Abs(deltaX), Abs(deltaZ))
        jumpDistance == JumpDistance(platformDistance, power)
    IN  [set |-> TRUE, deltaX |-> deltaX, deltaZ |-> deltaZ,
         dir |-> direction, targetPlatform |-> targetPlatformIndex + 1,
         targetPosition |-> Vec(playerPos.x + direction.x * jumpDistance,
                                playerPos.y,
                                playerPos.z + direction.z * jumpDistance)]

\* the part of GameEngine.jump before Player.jump: direction, distance and
\* landing point, and what the completion callback captures
JumpPlan(power) ==
    LET currentPlatform == platforms[currentPlatformIndex + 1]
        targetPlatform == platforms[targetPlatformIndex + 1]
        deltaX == targetPlatform.x - currentPlatform.x
        deltaZ == targetPlatform.z - currentPlatform.z
        alongX == Abs(deltaX) > Abs(deltaZ)
        direction == IF alongX THEN Vec(Sign(deltaX), 0, 0)
                     ELSE Vec(0, 0, Sign(deltaZ))
        platformDistance == Max(Abs(deltaX), Abs(deltaZ))
        jumpDistance == JumpDistance(platformDistance, power)
        target == IF alongX
                  THEN Vec(playerPos.x + direction.x * jumpDistance,
                           playerPos.y, targetPlatform.z)
                  ELSE Vec(targetPlatform.x, playerPos.y,
                           playerPos.z + direction.z * jumpDistance)
    IN  [set |-> TRUE, deltaX |-> deltaX, deltaZ |-> deltaZ,
         dir |-> direction, targetPlatform |-> targetPlatformIndex + 1,
         targetPosition |-> target]

\* fall direction that is always the direction of the jump
FallDirection_JumpDirection(cb) == cb.dir

\* the fall direction chosen by the failure callback of GameEngine.jump, as
\* Player.fallDown normalises it
FallDirection(cb) ==
    LET tp == platforms[cb.targetPlatform]
        pos == cb.targetPosition
    IN  IF 2 * pos.z < 2 * tp.z - tp.sizeZ THEN Vec(0, 0, -1)
        ELSE IF 2 * pos.z > 2 * tp.z + tp.sizeZ THEN Vec(0, 0, 1)
        ELSE IF 2 * pos.x < 2 * tp.x - tp.sizeX THEN Vec(-1, 0, 0)
        ELSE IF 2 * pos.x > 2 * tp.x + tp.sizeX THEN Vec(1, 0, 0)
        ELSE cb.dir

----------------------------------------------------------------------------
(* Player *)

\* sin(pi * e / d) scaled by 1000 (Bhaskara's rational approximation); only
\* the height drawn during the flight depends on it
SinPi1000(e, d) == (16000 * e * (d - e)) \div (5 * d * d - 4 * e * (d - e))

\* the position Player.update draws at jump progress e / JUMP_DURATION
FlightPosition(p0, p1, e) ==
    Vec(p0.x + ((p1.x - p0.x) * e) \div JUMP_DURATION,
        PLATFORM_TOP + (JUMP_HEIGHT * SinPi1000(e, JUMP_DURATION)) \div 1000,
        p0.z + ((p1.z - p0.z) * e) \div JUMP_DURATION)

\* landing test against the newest platform only
IsOnAnyPlatform_LastOnly(pt) ==
    IsPointOnPlatform(platforms[playerPlatforms[Len(playerPlatforms)]], pt)

\* the loop of Player.update over the player's platform list
IsOnAnyPlatform(pt) ==
    \E i \in 1..Len(playerPlatforms) :
        IsPointOnPlatform(platforms[playerPlatforms[i]], pt)

\* the fall (toppling) branch of Player.update
FallStep(dt) ==
    IF isFalling
    THEN LET fp == Min(fallProgress + dt, FALL_DURATION)
         IN  [isFalling |-> fallProgress + dt < FALL_DURATION,
              fallProgress |-> fp,
              y |-> Max(0, (fallStartY * (FALL_DURATION - fp))
                            \div FALL_DURATION)]
    ELSE [isFalling |-> FALSE, fallProgress |-> fallProgress, y |-> playerPos.y]

----------------------------------------------------------------------------
(* Camera (GameEngine.animate, GameEngine.startCameraMovement) *)

CameraStep(moving, progress, distance, dt) ==
    IF moving
    THEN LET p == progress + CAMERA_SPEED * dt
         IN  IF p >= 10 * distance
             THEN [moving |-> FALSE, progress |-> 10 * distance]
             ELSE [moving |-> TRUE, progress |-> p]
    ELSE [moving |-> FALSE, progress |-> progress]

----------------------------------------------------------------------------
(* Initial state: GameEngine.getInstance(container) has constructed the     *)
(* engine; setupPlayer and setupPlatforms have run; the mode selection is   *)
(* shown and the game is not started.                                       *)

InitEngineWith(second) ==
    /\ instanceDestroyed = FALSE
    /\ GLOBAL_GAME_STARTED = FALSE
    /\ currentContainer = 1
    /\ containersUsed = 1
    /\ isGameStarted = FALSE
    /\ isGameOver = FALSE
    /\ isPressing = FALSE
    /\ pressStartTime = 0
    /\ cameraMoving = FALSE
    /\ cameraMoveProgress = 0
    /\ cameraMoveDistance = 0
    /\ cameraPosition = Vec(CAMERA_X, CAMERA_Y, CAMERA_Z)
    /\ cameraTargetPosition = Vec(CAMERA_X, CAMERA_Y, CAMERA_Z)
    /\ cameraStartPosition = Vec(0, 0, 0)
    /\ ground = Vec(0, 0, 0)
    /\ isGroundMoving = FALSE
    /\ groundMoveProgress = 0
    /\ groundMoveDuration = 0
    /\ groundStartPosition = Vec(0, 0, 0)
    /\ groundTargetPosition = Vec(0, 0, 0)
    /\ score = 0
    /\ currentPlatformIndex = 0
    /\ targetPlatformIndex = 1
    /\ platforms = <<NewPlatform(TRUE, 0, 0, 0, 0), second>>
    /\ playerPlatforms = <<1, 2>>
    /\ playerPos = Vec(0, PLATFORM_TOP, 0)
    /\ isJumping = FALSE
    /\ isCharging = FALSE
    /\ jumpProgress = 0
    /\ jumpPower = 0
    /\ jumpStartPosition = Vec(0, 0, 0)
    /\ jumpTargetPosition = Vec(0, 0, 0)
    /\ onJumpComplete = NoCallback
    /\ isFalling = FALSE
    /\ fallProgress = 0
    /\ fallDirection = Vec(0, 0, 0)
    /\ fallStartY = 0
    /\ customModel = FALSE
    /\ now = 0
    /\ listenersAdded = FALSE
    /\ uiAttached = TRUE

\* the second platform is the one generateNextPlatform creates after the
\* start platform
InitEngine ==
    \E isXDirection \in BOOLEAN, distance \in MIN_DISTANCE..MAX_DISTANCE,
       rx \in RandomSizeSet, rz \in RandomSizeSet :
       InitEngineWith(NextPlatform(<<NewPlatform(TRUE, 0, 0, 0, 0)>>,
                                   isXDirection, distance, rx, rz))

\* the observed Platform object is the start platform; no landing test has
\* been made on it
Init ==
    /\ InitEngine
    /\ plat = StartPlatformObject
    /\ judged = NotJudged

----------------------------------------------------------------------------
(* Starting the game: the two buttons of the mode selection *)

\* basicModeButton click handler and GameEngine.startBasicMode
StartBasicMode ==
    /\ uiAttached
    /\ ~(isGameStarted \/ GLOBAL_GAME_STARTED)
    /\ GLOBAL_GAME_STARTED' = TRUE
    /\ isGameStarted' = TRUE
    /\ listenersAdded' = TRUE
    /\ UNCHANGED <<instanceDestroyed, currentContainer, isGameOver, isPressing,
                   pressStartTime, cameraMoving, cameraMoveProgress,
                   cameraMoveDistance, score, currentPlatformIndex,
                   targetPlatformIndex, platforms, playerVars, now, uiAttached,
                   containersUsed, platformVars,
                   followerVars>>

\* evolveModeButton click handler and GameEngine.showEvolveMode
ShowEvolveMode ==
    /\ uiAttached
    /\ ~(isGameStarted \/ GLOBAL_GAME_STARTED)
    /\ GLOBAL_GAME_STARTED' = TRUE
    /\ isGameStarted' = TRUE
    /\ listenersAdded' = TRUE
    /\ UNCHANGED <<instanceDestroyed, currentContainer, isGameOver, isPressing,
                   pressStartTime, cameraMoving, cameraMoveProgress,
                   cameraMoveDistance, score, currentPlatformIndex,
                   targetPlatformIndex, platforms, playerVars, now, uiAttached,
                   containersUsed, platformVars,
                   followerVars>>

----------------------------------------------------------------------------
(* Input events.  removeEventListeners passes freshly bound functions to    *)
(* removeEventListener, so it detaches nothing: once added, the listeners   *)
(* receive every press and release made on the container.                   *)

\* onPressStart without the game-over check
OnPressStart_NoGameOverCheck ==
    /\ listenersAdded /\ uiAttached
    /\ IF ~isGameStarted \/ cameraMoving
       THEN UNCHANGED vars
       ELSE /\ isPressing' = TRUE
            /\ pressStartTime' = now
            /\ isCharging' = (IF isJumping THEN isCharging ELSE TRUE)
            /\ UNCHANGED <<staticVars, envVars, isGameStarted, isGameOver,
                           cameraMoving, cameraMoveProgress, cameraMoveDistance,
                           score, currentPlatformIndex, targetPlatformIndex,
                           platforms, playerPos, isJumping, jumpProgress,
                           jumpStartPosition, jumpTargetPosition,
                           onJumpComplete, playerPlatforms, isFalling,
                           fallProgress, fallDirection, fallStartY,
                           customModel, jumpPower, platformVars,
                   followerVars>>

\* GameEngine.onPressStart, with Player.startCharging
OnPressStart ==
    /\ listenersAdded /\ uiAttached
    /\ IF ~isGameStarted \/ isGameOver \/ cameraMoving
       THEN UNCHANGED vars
       ELSE /\ isPressing' = TRUE
            /\ pressStartTime' = now
            /\ isCharging' = (IF isJumping THEN isCharging ELSE TRUE)
            /\ UNCHANGED <<staticVars, envVars, isGameStarted, isGameOver,
                           cameraMoving, cameraMoveProgress, cameraMoveDistance,
                           score, currentPlatformIndex, targetPlatformIndex,
                           platforms, playerPos, isJumping, jumpProgress,
                           jumpStartPosition, jumpTargetPosition,
                           onJumpComplete, playerPlatforms, isFalling,
                           fallProgress, fallDirection, fallStartY,
                           customModel, jumpPower, platformVars,
                   followerVars>>

\* onPressEnd that starts the jump without looking at the pressing flag
OnPressEnd_NoPressingCheck ==
    /\ listenersAdded /\ uiAttached
    /\ Len(platforms) < MaxPlatforms
    /\ isPressing' = FALSE
    /\ IF Len(platforms) < 2 \/ isGameOver \/ isJumping
       THEN UNCHANGED playerVars
       ELSE LET power == Power(now - pressStartTime)
                plan == JumpPlan(power)
            IN  /\ isCharging' = FALSE
                /\ isJumping' = TRUE
                /\ jumpProgress' = 0
                /\ jumpPower' = power
                /\ onJumpComplete' = plan
                /\ jumpStartPosition' = playerPos
                /\ jumpTargetPosition' = plan.targetPosition
                /\ UNCHANGED <<playerPos, playerPlatforms, isFalling,
                               fallProgress, fallDirection, fallStartY,
                               customModel>>
    /\ UNCHANGED <<staticVars, envVars, isGameStarted, isGameOver,
                   pressStartTime, cameraMoving, cameraMoveProgress,
                   cameraMoveDistance, score, currentPlatformIndex,
                   targetPlatformIndex, platforms, platformVars,
                   followerVars>>

\* GameEngine.onPressEnd, with GameEngine.jump and Player.jump
OnPressEnd ==
    /\ listenersAdded /\ uiAttached
    /\ IF ~isPressing
       THEN UNCHANGED vars
       ELSE /\ Len(platforms) < MaxPlatforms
            /\ isPressing' = FALSE
            /\ IF Len(platforms) < 2 \/ isGameOver \/ isJumping
               THEN UNCHANGED playerVars
               ELSE LET power == Power(now - pressStartTime)
                        plan == JumpPlan(power)
                    IN  /\ isCharging' = FALSE
                        /\ isJumping' = TRUE
                        /\ jumpProgress' = 0
                        /\ jumpPower' = power
                        /\ onJumpComplete' = plan
                        /\ jumpStartPosition' = playerPos
                        /\ jumpTargetPosition' = plan.targetPosition
                        /\ UNCHANGED <<playerPos, playerPlatforms, isFalling,
                                       fallProgress, fallDirection, fallStartY,
                                       customModel>>
            /\ UNCHANGED <<staticVars, envVars, isGameStarted, isGameOver,
                           pressStartTime, cameraMoving, cameraMoveProgress,
                           cameraMoveDistance, score, currentPlatformIndex,
                           targetPlatformIndex, platforms, platformVars,
                   followerVars>>
----------------------------------------------------------------------------
(* One animation frame: GameEngine.animate with Player.update and the       *)
(* completion callback that GameEngine.jump handed to Player.jump.  The     *)
(* vertical fall of the platforms (Platform.update) does not enter the      *)
(* landing test; it is followed on one Platform object, in plat, by the     *)
(* actions PlatformUpdate and StopFalling below.                            *)

\* THREE.Vector3.lerpVectors(a, b, num / den)
LerpVectors(a, b, num, den) ==
    Vec(a.x + ((b.x - a.x) * num) \div den,
        a.y + ((b.y - a.y) * num) \div den,
        a.z + ((b.z - a.z) * num) \div den)

\* a position moved by the platform delta along the axis on which the delta
\* is larger: the target startCameraMovement gives the camera and the one
\* the success callback hands to startGroundMovement
ShiftAlongAxis(pos, deltaX, deltaZ) ==
    IF Abs(deltaX) > Abs(deltaZ)
    THEN Vec(pos.x + deltaX, pos.y, pos.z)
    ELSE Vec(pos.x, pos.y, pos.z + deltaZ)

\* camera position part of GameEngine.animate: the interpolation between
\* the start and the target of the transition, at the progress just reached
CameraPositionUpdate(moving, start, target) ==
    /\ cameraStartPosition' = start
    /\ cameraTargetPosition' = target
    /\ cameraPosition' =
          IF ~moving THEN cameraPosition
          ELSE IF ~cameraMoving' THEN target
          ELSE LerpVectors(start, target, cameraMoveProgress',
                           10 * cameraMoveDistance')

\* ground part of GameEngine.animate.  groundMoveDuration is kept as the
\* length of the move in hundredths of a unit (the code divides it by
\* CAMERA_SPEED), groundMoveProgress as CAMERA_SPEED times the milliseconds
\* run, so that progress 1 is groundMoveProgress = 10 * groundMoveDuration.
GroundUpdate(moving, progress, duration, start, target, dt) ==
    LET p == progress + CAMERA_SPEED * dt
        done == p >= 10 * duration
    IN  /\ groundMoveDuration' = duration
        /\ groundStartPosition' = start
        /\ groundTargetPosition' = target
        /\ IF moving
           THEN /\ isGroundMoving' = ~done
                /\ groundMoveProgress' = (IF done THEN 10 * duration ELSE p)
                /\ ground' = (IF done THEN target
                              ELSE LerpVectors(start, target, p, 10 * duration))
           ELSE /\ isGroundMoving' = FALSE
                /\ groundMoveProgress' = progress
                /\ ground' = ground

\* camera and ground parts of a frame in which no transition starts
FollowerUpdate(dt) ==
    /\ CameraPositionUpdate(cameraMoving, cameraStartPosition,
                            cameraTargetPosition)
    /\ GroundUpdate(isGroundMoving, groundMoveProgress, groundMoveDuration,
                    groundStartPosition, groundTargetPosition, dt)

\* camera part of GameEngine.animate, run after Player.update
CameraUpdate(moving, progress, dt) ==
    LET cam == CameraStep(moving, progress, cameraMoveDistance', dt)
    IN  /\ cameraMoving' = cam.moving
        /\ cameraMoveProgress' = cam.progress

\* updateScore that leaves the score field as it was
UpdateScore_Stale(newScore) == score' = score

\* GameEngine.updateScore
UpdateScore(newScore) == score' = newScore

\* index update that advances the current index only
AdvancePlatformIndices_CurrentOnly ==
    /\ currentPlatformIndex' = targetPlatformIndex
    /\ targetPlatformIndex' = targetPlatformIndex

\* the index update of the success callback
AdvancePlatformIndices ==
    /\ currentPlatformIndex' = targetPlatformIndex
    /\ targetPlatformIndex' = targetPlatformIndex + 1

\* success callback that requests no next platform
GenerateNextPlatform_None == UNCHANGED <<platforms, playerPlatforms>>

\* generateNextPlatform that does not hand the new platform to the character
GenerateNextPlatformFrom_NotAdded(sizes) ==
    /\ \E isXDirection \in BOOLEAN, distance \in MIN_DISTANCE..MAX_DISTANCE,
          rx \in sizes, rz \in sizes :
          platforms' = Append(platforms,
                              NextPlatform(platforms, isXDirection, distance,
                                           rx, rz))
    /\ playerPlatforms' = playerPlatforms

\* generateNextPlatform when the character's list is the engine's own array
\* (Player.jump keeping the array it is handed): both pushes land in it
GenerateNextPlatformFrom_SharedList(sizes) ==
    /\ \E isXDirection \in BOOLEAN, distance \in MIN_DISTANCE..MAX_DISTANCE,
          rx \in sizes, rz \in sizes :
          LET new == NextPlatform(platforms, isXDirection, distance, rx, rz)
          IN  platforms' = Append(Append(platforms, new), new)
    /\ playerPlatforms' = Append(Append(playerPlatforms, Len(platforms) + 1),
                                 Len(platforms) + 2)

\* GameEngine.generateNextPlatform with Player.addPlatform, the footprint
\* drawn from the set sizes
GenerateNextPlatformFrom(sizes) ==
    /\ \E isXDirection \in BOOLEAN, distance \in MIN_DISTANCE..MAX_DISTANCE,
          rx \in sizes, rz \in sizes :
          platforms' = Append(platforms,
                              NextPlatform(platforms, isXDirection, distance,
                                           rx, rz))
    /\ playerPlatforms' = Append(playerPlatforms, Len(platforms) + 1)

\* success callback that generates two platforms for one landing
GenerateNextPlatform_Twice == GenerateNextPlatformFrom_SharedList(RandomSizeSet)

\* GameEngine.generateNextPlatform as called by the success callback
GenerateNextPlatform == GenerateNextPlatformFrom(RandomSizeSet)

\* Player.update when the jump completes on a platform, and the success
\* branch of the callback: indices, score, generateNextPlatform,
\* startCameraMovement
LandSuccess(dt, final, fall) ==
    /\ playerPos' = final
    /\ isJumping' = FALSE
    /\ jumpProgress' = JUMP_DURATION
    /\ isFalling' = fall.isFalling
    /\ fallProgress' = fall.fallProgress
    /\ AdvancePlatformIndices
    /\ UpdateScore(score + 1)
    /\ GenerateNextPlatform
    /\ cameraMoveDistance' = Max(Abs(onJumpComplete.deltaX),
                                 Abs(onJumpComplete.deltaZ))
    /\ CameraUpdate(TRUE, 0, dt)
    /\ CameraPositionUpdate(TRUE, cameraPosition,
                            ShiftAlongAxis(cameraPosition,
                                           onJumpComplete.deltaX,
                                           onJumpComplete.deltaZ))
    /\ GroundUpdate(TRUE, 0,
                    Max(Abs(onJumpComplete.deltaX), Abs(onJumpComplete.deltaZ)),
                    ground,
                    ShiftAlongAxis(ground, onJumpComplete.deltaX,
                                   onJumpComplete.deltaZ),
                    dt)
    /\ UNCHANGED <<isGameOver, isPressing, isCharging, jumpStartPosition,
                   jumpTargetPosition, onJumpComplete, fallDirection,
                   fallStartY, customModel>>

\* showGameOver that leaves the pressing flag set
ShowGameOver_KeepsPressing ==
    IF isGameOver
    THEN UNCHANGED <<isGameOver, isPressing>>
    ELSE /\ isGameOver' = TRUE
         /\ isPressing' = isPressing

\* GameEngine.showGameOver
ShowGameOver ==
    IF isGameOver
    THEN UNCHANGED <<isGameOver, isPressing>>
    ELSE /\ isGameOver' = TRUE
         /\ isPressing' = FALSE

\* Player.update when the jump completes off every platform, and the failure
\* branch of the callback: fall direction, Player.fallDown, showGameOver
LandFailure(dt, final) ==
    /\ playerPos' = Vec(final.x, 0, final.z)
    /\ isJumping' = FALSE
    /\ jumpProgress' = JUMP_DURATION
    /\ isFalling' = TRUE
    /\ fallProgress' = 0
    /\ fallDirection' = FallDirection(onJumpComplete)
    /\ fallStartY' = 0
    /\ ShowGameOver
    /\ cameraMoveDistance' = cameraMoveDistance
    /\ CameraUpdate(cameraMoving, cameraMoveProgress, dt)
    /\ FollowerUpdate(dt)
    /\ UNCHANGED <<score, currentPlatformIndex, targetPlatformIndex, platforms,
                   playerPlatforms, isCharging, jumpStartPosition,
                   jumpTargetPosition, onJumpComplete, customModel>>

\* Player.update while the jump is in flight, or with no jump
NoLanding(dt, fall) ==
    /\ IF customModel
       THEN UNCHANGED <<playerPos, jumpProgress, isFalling, fallProgress>>
       ELSE /\ isFalling' = fall.isFalling
            /\ fallProgress' = fall.fallProgress
            /\ IF isJumping
               THEN /\ jumpProgress' = jumpProgress + dt
                    /\ playerPos' = FlightPosition(jumpStartPosition,
                                                   jumpTargetPosition,
                                                   jumpProgress + dt)
               ELSE /\ jumpProgress' = jumpProgress
                    /\ playerPos' = [playerPos EXCEPT !.y = fall.y]
    /\ cameraMoveDistance' = cameraMoveDistance
    /\ CameraUpdate(cameraMoving, cameraMoveProgress, dt)
    /\ FollowerUpdate(dt)
    /\ UNCHANGED <<isGameOver, isPressing, score, currentPlatformIndex,
                   targetPlatformIndex, platforms, playerPlatforms, isJumping,
                   isCharging, jumpStartPosition, jumpTargetPosition,
                   onJumpComplete, fallDirection, fallStartY, customModel>>

\* animate that lands the character where the last frame's progress puts it
Animate_FrameDependent(dt) ==
    LET fall == FallStep(dt)
        landing == ~customModel /\ isJumping
                      /\ jumpProgress + dt >= JUMP_DURATION
        e == jumpProgress + dt
        final == Vec(jumpStartPosition.x
                       + ((jumpTargetPosition.x - jumpStartPosition.x) * e)
                             \div JUMP_DURATION,
                     PLATFORM_TOP,
                     jumpStartPosition.z
                       + ((jumpTargetPosition.z - jumpStartPosition.z) * e)
                             \div JUMP_DURATION)
    IN  IF landing
        THEN IF IsOnAnyPlatform(final)
             THEN LandSuccess(dt, final, fall)
             ELSE LandFailure(dt, final)
        ELSE NoLanding(dt, fall)

\* GameEngine.animate for a frame delta of dt milliseconds
Animate(dt) ==
    LET fall == FallStep(dt)
        landing == ~customModel /\ isJumping
                      /\ jumpProgress + dt >= JUMP_DURATION
        final == Vec(jumpTargetPosition.x, PLATFORM_TOP, jumpTargetPosition.z)
    IN  IF landing
        THEN IF IsOnAnyPlatform(final)
             THEN LandSuccess(dt, final, fall)
             ELSE LandFailure(dt, final)
        ELSE NoLanding(dt, fall)

\* a frame requested by requestAnimationFrame
Tick ==
    \E dt \in DeltaSet :
        /\ now + dt <= MaxTime
        /\ now' = now + dt
        /\ Animate(dt)
        /\ UNCHANGED <<staticVars, isGameStarted, pressStartTime, jumpPower,
                       listenersAdded, uiAttached, containersUsed,
                       platformVars>>

\* frames that stop once the character is at rest, whatever the camera does
Frame_IdleAtRest ==
    \E dt \in HoldDeltaSet :
        /\ \/ isJumping \/ isFalling
           \/ isPressing /\ now + dt <= MaxHold
        /\ now' = now + dt
        /\ Animate(dt)
        /\ UNCHANGED <<staticVars, isGameStarted, pressStartTime, jumpPower,
                       listenersAdded, uiAttached, containersUsed,
                       platformVars>>

\* a frame while a press is held or an animation (jump, toppling, camera)
\* is running, with the deltas of a held press
Frame ==
    \E dt \in HoldDeltaSet :
        /\ \/ isJumping \/ isFalling \/ cameraMoving
           \/ isPressing /\ now + dt <= MaxHold
        /\ now' = now + dt
        /\ Animate(dt)
        /\ UNCHANGED <<staticVars, isGameStarted, pressStartTime, jumpPower,
                       listenersAdded, uiAttached, containersUsed,
                       platformVars>>

----------------------------------------------------------------------------
(* Character model replacement (evolve mode) *)

\* replacePlayerModel whose state reset also clears the game-over flag
ReplacePlayerModel_ResetsGameOver ==
    /\ listenersAdded
    /\ \E modelY \in ModelYSet, dt \in {0} \cup DeltaSet :
        /\ now + dt <= MaxTime
        /\ now' = now + dt
        /\ playerPos' = [playerPos EXCEPT !.y = modelY]
        /\ customModel' = TRUE
        /\ isJumping' = FALSE
        /\ isCharging' = FALSE
        /\ isFalling' = FALSE
        /\ isPressing' = FALSE
        /\ pressStartTime' = 0
        /\ isGameOver' = FALSE
        /\ cameraMoveDistance' = cameraMoveDistance
        /\ CameraUpdate(cameraMoving, cameraMoveProgress, dt)
        /\ FollowerUpdate(dt)
    /\ UNCHANGED <<staticVars, isGameStarted, score,
                   currentPlatformIndex, targetPlatformIndex, platforms,
                   jumpProgress, jumpStartPosition, jumpTargetPosition,
                   onJumpComplete, playerPlatforms, fallProgress,
                   fallDirection, fallStartY, listenersAdded, uiAttached,
                   containersUsed, jumpPower, platformVars>>

\* GameEngine.replacePlayerModel with Player.setCustomModel; it ends with a
\* forced call of animate, in which Player.update returns at once
ReplacePlayerModel ==
    /\ listenersAdded
    /\ \E modelY \in ModelYSet, dt \in {0} \cup DeltaSet :
        /\ now + dt <= MaxTime
        /\ now' = now + dt
        /\ playerPos' = [playerPos EXCEPT !.y = modelY]
        /\ customModel' = TRUE
        /\ isJumping' = FALSE
        /\ isCharging' = FALSE
        /\ isFalling' = FALSE
        /\ isPressing' = FALSE
        /\ pressStartTime' = 0
        /\ cameraMoveDistance' = cameraMoveDistance
        /\ CameraUpdate(cameraMoving, cameraMoveProgress, dt)
        /\ FollowerUpdate(dt)
    /\ UNCHANGED <<staticVars, isGameStarted, isGameOver, score,
                   currentPlatformIndex, targetPlatformIndex, platforms,
                   jumpProgress, jumpStartPosition, jumpTargetPosition,
                   onJumpComplete, playerPlatforms, fallProgress,
                   fallDirection, fallStartY, listenersAdded, uiAttached,
                   containersUsed, jumpPower, platformVars>>

----------------------------------------------------------------------------
(* Singleton lifecycle (GameCanvas effect, GameEngine static methods) *)

\* GameEngine.cleanup
Cleanup ==
    /\ isGameStarted' = FALSE
    /\ isGameOver' = FALSE
    /\ score' = 0

\* cleanup function of the GameCanvas effect once its container has left the
\* document: GameEngine.destroyInstance
DestroyInstance ==
    /\ currentContainer # 0
    /\ Cleanup
    /\ instanceDestroyed' = TRUE
    /\ currentContainer' = 0
    /\ GLOBAL_GAME_STARTED' = FALSE
    /\ uiAttached' = FALSE
    /\ UNCHANGED <<isPressing, pressStartTime, cameraMoving,
                   cameraMoveProgress, cameraMoveDistance, currentPlatformIndex,
                   targetPlatformIndex, platforms, playerVars, now,
                   listenersAdded, containersUsed, platformVars,
                   followerVars>>

\* GameEngine.getInstance(container) called by a newly mounted GameCanvas;
\* the instance reference is never cleared, so the container differs from
\* currentContainer and the existing instance is re-attached
GetInstance ==
    /\ currentContainer = 0
    /\ containersUsed < MaxContainers
    /\ containersUsed' = containersUsed + 1
    /\ currentContainer' = containersUsed + 1
    /\ UNCHANGED <<instanceDestroyed, GLOBAL_GAME_STARTED, engineVars,
                   playerVars, now, listenersAdded, uiAttached, platformVars,
                   followerVars>>

----------------------------------------------------------------------------
(* One Platform object, frame by frame (Platform.update), and the landing   *)
(* test called on it (Platform.isPointOnPlatform).  The wall clock is not   *)
(* read by either and is left as it is.                                     *)

\* the platform after Platform.update(dt), dt in milliseconds
PlatformAfterUpdate(p, dt, bx, bz) ==
    IF ~p.isFalling
    THEN p
    ELSE LET velocity == p.velocity + GRAVITY * dt
             newY == p.y + velocity * dt
             moved ==
                 IF newY <= 0
                 THEN IF Abs(velocity) > BOUNCE_THRESHOLD_X1000
                      THEN [p EXCEPT !.velocity =
                                         ((-velocity) * BOUNCE_FACTOR_X10)
                                             \div 10,
                                     !.y = 0]
                      ELSE [p EXCEPT !.y = 0, !.isFalling = FALSE,
                                     !.velocity = 0]
                 ELSE [p EXCEPT !.velocity = velocity, !.y = newY]
         IN  UpdateBoundingBox(moved, bx, bz)

\* Platform.update called by GameEngine.animate
PlatformUpdate(dt) ==
    /\ \E bx \in BoxSizeSet, bz \in BoxSizeSet :
           plat' = PlatformAfterUpdate(plat, dt, bx, bz)
    /\ UNCHANGED <<staticVars, engineVars, playerVars, envVars, judged,
                   followerVars>>

\* a frame of a display refreshing about 60 times a second
PlatformFrame == \E dt \in FrameDeltaSet : PlatformUpdate(dt)

\* a frame with the deltas of the game clock
PlatformTick == \E dt \in DeltaSet : PlatformUpdate(dt)

\* Platform.stopFalling
StopFalling ==
    /\ plat.isFalling
    /\ \E bx \in BoxSizeSet, bz \in BoxSizeSet :
           plat' = UpdateBoundingBox(
                       [plat EXCEPT !.isFalling = FALSE, !.velocity = 0,
                                    !.y = Max(0, plat.y)], bx, bz)
    /\ UNCHANGED <<staticVars, engineVars, playerVars, envVars, judged,
                   followerVars>>

\* offsets from the platform centre at which the landing test is called:
\* the centre, the edge, the edge plus the tolerance, and one hundredth
\* beyond, on either side of one axis or diagonally
JudgeOffsets(sizeX, sizeZ) ==
    LET hx == sizeX \div 2
        hz == sizeZ \div 2
        along(h) == {0, h, -h, h + TOLERANCE, -(h + TOLERANCE),
                     h + TOLERANCE + 1, -(h + TOLERANCE + 1)}
    IN  {<<dx, 0>> : dx \in along(hx)} \cup {<<0, dz>> : dz \in along(hz)}
          \cup {<<hx + TOLERANCE, hz + TOLERANCE>>,
                <<-(hx + TOLERANCE), -(hz + TOLERANCE)>>,
                <<hx + TOLERANCE + 1, hz + TOLERANCE>>,
                <<hx + TOLERANCE, -(hz + TOLERANCE + 1)>>}

\* a call of Platform.isPointOnPlatform(point) and its return value
JudgePoint ==
    /\ \E d \in JudgeOffsets(plat.sizeX, plat.sizeZ) :
           LET point == Vec(plat.x + d[1], PLATFORM_TOP, plat.z + d[2])
               result == IsPointOnPlatform(plat, point)
               repeated == judged.called /\ judged.point = point
           IN  judged' = [called |-> TRUE, point |-> point, result |-> result,
                          repeated |-> repeated,
                          previous |-> IF repeated THEN judged.result
                                       ELSE result]
    /\ UNCHANGED <<staticVars, engineVars, playerVars, envVars, plat,
                   followerVars>>

\* the engine's second platform as generateNextPlatform leaves it: elevated
\* and falling
FallingPlatformObject(bx, bz) ==
    StartFalling(PlatformObject(platforms[2], 1000000 * SPAWN_Y, bx, bz))

\* the observed platform is the start platform or the second platform of
\* a newly constructed engine, generated at the smallest or the largest
\* distance
InitPlatformJudge ==
    /\ \E isXDirection \in BOOLEAN, distance \in {MIN_DISTANCE, MAX_DISTANCE},
          rx \in PlatformSizeSet, rz \in PlatformSizeSet :
          InitEngineWith(NextPlatform(<<NewPlatform(TRUE, 0, 0, 0, 0)>>,
                                      isXDirection, distance, rx, rz))
    /\ judged = NotJudged
    /\ \/ plat = StartPlatformObject
       \/ \E bx \in BoxSizeSet, bz \in BoxSizeSet :
             plat = FallingPlatformObject(bx, bz)

\* GameEngine.handleVisibilityChange when the page becomes visible again:
\* in a started game that is not over, stopFalling on a platform that is
\* still falling (followed on the observed platform)
HandleVisibilityChange ==
    IF isGameStarted /\ ~isGameOver /\ plat.isFalling
    THEN StopFalling
    ELSE UNCHANGED vars

\* landing tests on a platform while frames and stopFalling act on it
NextPlatformJudge ==
    \/ PlatformTick
    \/ StopFalling
    \/ JudgePoint

SpecPlatformJudge == InitPlatformJudge /\ [][NextPlatformJudge]_vars

\* the observed platform is the second platform of a newly constructed
\* engine
InitPlatformFall ==
    /\ InitEngine
    /\ judged = NotJudged
    /\ \E bx \in BoxSizeSet, bz \in BoxSizeSet :
          plat = FallingPlatformObject(bx, bz)

\* a call of GameEngine.generateNextPlatform on its own
GeneratePlatform ==
    /\ Len(platforms) < MaxPlatforms
    /\ GenerateNextPlatformFrom(PlatformSizeSet)
    /\ UNCHANGED <<staticVars, envVars, platformVars, isGameStarted,
                   isGameOver, isPressing, pressStartTime, cameraMoving,
                   cameraMoveProgress, cameraMoveDistance, score,
                   currentPlatformIndex, targetPlatformIndex, playerPos,
                   isJumping, isCharging, jumpProgress, jumpPower,
                   jumpStartPosition, jumpTargetPosition, onJumpComplete,
                   isFalling, fallProgress, fallDirection, fallStartY,
                   customModel,
                   followerVars>>

\* a newly constructed engine whose second platform has a footprint drawn
\* from PlatformSizeSet
InitGenerate ==
    /\ \E isXDirection \in BOOLEAN, distance \in MIN_DISTANCE..MAX_DISTANCE,
          rx \in PlatformSizeSet, rz \in PlatformSizeSet :
          InitEngineWith(NextPlatform(<<NewPlatform(TRUE, 0, 0, 0, 0)>>,
                                      isXDirection, distance, rx, rz))
    /\ plat = StartPlatformObject
    /\ judged = NotJudged

\* platform generation alone, from a newly constructed engine
SpecGenerate == InitGenerate /\ [][GeneratePlatform]_vars

\* a platform under the frames that requestAnimationFrame keeps delivering
\* a generated platform falling while the game is started and the page is
\* hidden and shown again
NextVisibility ==
    \/ StartBasicMode
    \/ PlatformTick
    \/ HandleVisibilityChange

SpecVisibility == InitPlatformFall /\ [][NextVisibility]_vars

SpecPlatformFall ==
    InitPlatformFall /\ [][PlatformFrame]_vars /\ WF_vars(PlatformFrame)

\* a run in basic mode, in a component that stays mounted
Next ==
    \/ StartBasicMode
    \/ OnPressStart
    \/ OnPressEnd
    \/ Tick

Spec == Init /\ [][Next]_vars

\* a run in basic mode with presses held for up to MaxHold
NextTrajectory ==
    \/ StartBasicMode
    \/ OnPressStart
    \/ OnPressEnd
    \/ Frame

SpecTrajectory == Init /\ [][NextTrajectory]_vars

\* the same game under continued frames: animate re-registers itself with
\* requestAnimationFrame at each call, so a frame that can run does run
SpecTrajectoryFair ==
    Init /\ [][NextTrajectory]_vars /\ WF_vars(Frame)

\* a run in evolve mode, where the sidebar can replace the character model
NextEvolve ==
    \/ ShowEvolveMode
    \/ OnPressStart
    \/ OnPressEnd
    \/ Tick
    \/ ReplacePlayerModel

SpecEvolve == Init /\ [][NextEvolve]_vars

\* a run in basic mode, in a component that is unmounted and mounted again
NextLifecycle ==
    \/ StartBasicMode
    \/ OnPressStart
    \/ OnPressEnd
    \/ Tick
    \/ DestroyInstance
    \/ GetInstance

SpecLifecycle == Init /\ [][NextLifecycle]_vars

\* a run in evolve mode, in a component that is unmounted and mounted again
NextFull ==
    \/ ShowEvolveMode
    \/ OnPressStart
    \/ OnPressEnd
    \/ Tick
    \/ ReplacePlayerModel
    \/ DestroyInstance
    \/ GetInstance

SpecFull == Init /\ [][NextFull]_vars

----------------------------------------------------------------------------
(* Properties *)

\* the point lies within half the footprint plus the tolerance of the
\* platform's centre on both horizontal axes
InFootprint(p, pt) ==
    /\ Abs(2 * (pt.x - p.x)) <= p.sizeX + 2 * TOLERANCE
    /\ Abs(2 * (pt.z - p.z)) <= p.sizeZ + 2 * TOLERANCE

\* a jump is resolved in this step (Player.update reaches progress 1)
JumpResolves == isJumping /\ ~isJumping'
\* a jump is started in this step
JumpStarts == ~isJumping /\ isJumping'
\* the failure callback has run at some earlier step
HasFailed == fallDirection # Vec(0, 0, 0)
\* onPressStart would start a charge
AcceptsPress == isGameStarted /\ ~isGameOver /\ ~cameraMoving

\* C1: after game over, a press or a release changes neither the character's
\* position nor the score, and starts neither a charge nor a jump from which
\* a later frame would change them.
C1_InputAfterGameOverIsNoOp ==
    [][(isGameOver /\ (OnPressStart \/ OnPressEnd))
         => UNCHANGED <<playerPos, score, isPressing, pressStartTime,
                        isCharging, isJumping, jumpTargetPosition>>]_vars

\* C1 witness: the run is over, its toppling animation has played to the end
\* and the listeners still receive presses and releases
C1_Witness ==
    /\ isGameOver /\ fallProgress = FALL_DURATION /\ ~isFalling
    /\ listenersAdded /\ uiAttached /\ ~isPressing

\* C2: a press made while a jump is in flight leaves the pressing flag and the
\* press timestamp as they were.
C2_PressWhileAirborneIgnored ==
    [][(isJumping /\ OnPressStart)
         => (isPressing' = isPressing /\ pressStartTime' = pressStartTime)]_vars

\* C3: no jump starts while the camera transition is in progress.
C3_NoJumpWhileCameraMoving ==
    [][JumpStarts => ~cameraMoving]_vars

\* C4: a completed jump is a success (score incremented, run not over) exactly
\* when the final horizontal position is within the tolerance-extended
\* footprint of some platform of the session, and a failure (run over, score
\* unchanged) otherwise.
C4_SuccessIffOnSomePlatform ==
    [][JumpResolves =>
         LET onSome == \E i \in 1..Len(platforms) :
                           InFootprint(platforms[i], playerPos')
         IN  /\ onSome <=> (score' = score + 1 /\ ~isGameOver')
             /\ ~onSome <=> (score' = score /\ isGameOver')]_vars

\* C4 witness: a jump was resolved as a success on a platform that is not the
\* one the indices call current
C4_Witness ==
    /\ score = 2 /\ ~isJumping /\ ~isGameOver
    /\ ~InFootprint(platforms[currentPlatformIndex + 1], playerPos)
    /\ \E i \in 1..Len(platforms) : InFootprint(platforms[i], playerPos)

\* C5: while the character is not airborne and the run is not over, its
\* horizontal position is within the tolerance-extended footprint of
\* platforms[currentPlatformIndex].
C5_CurrentIndexIsOccupiedPlatform ==
    (~isJumping /\ ~isGameOver)
        => InFootprint(platforms[currentPlatformIndex + 1], playerPos)

\* C6: targetPlatformIndex is currentPlatformIndex + 1 and the target
\* platform exists.
C6_TargetIsNextAndExists ==
    /\ targetPlatformIndex = currentPlatformIndex + 1
    /\ Len(platforms) >= targetPlatformIndex + 1

\* C6 witness: a second jump is in flight after a successful landing
C6_Witness == isJumping /\ score = 1 /\ jumpProgress > 0

\* C7: the score starts at 0; a step changes it only by adding 1, and only
\* when it resolves a jump on a platform; every such step adds 1.
C7_ScoreCountsSuccessfulLandings ==
    /\ score = 0
    /\ [][LET success == JumpResolves
                           /\ \E i \in 1..Len(platforms) :
                                  InFootprint(platforms[i], playerPos')
          IN  /\ success => score' = score + 1
              /\ ~success => score' = score]_vars

\* C7 witness: two landings have been counted
C7_Witness == score = 2

\* C8 as claimed: once isGameOver is true it is true in every later state.
C8_GameOverMonotonic ==
    [][isGameOver => isGameOver']_vars

\* C8 amended: once isGameOver is true it stays true in every step except
\* destroyInstance, whose cleanup resets it.
C8_GameOverUntilDestroy ==
    [][(isGameOver /\ ~DestroyInstance) => isGameOver']_vars

\* C8 witness: the run is over, with a replaced character model, and frames
\* have followed the failure
C8_Witness == isGameOver /\ customModel /\ now >= 1000

\* C9: a step that resolves a jump as a success adds 1 to both platform
\* indices and to the score and appends exactly one platform.
C9_SuccessAdvancesByOne ==
    [][(JumpResolves /\ ~isGameOver') =>
         /\ currentPlatformIndex' = currentPlatformIndex + 1
         /\ targetPlatformIndex' = targetPlatformIndex + 1
         /\ score' = score + 1
         /\ Len(platforms') = Len(platforms) + 1
         /\ SubSeq(platforms', 1, Len(platforms)) = platforms]_vars

\* C9 witness: the first jump from the initial two platforms succeeded
C9_Witness ==
    /\ score = 1 /\ Len(platforms) = 3
    /\ currentPlatformIndex = 1 /\ targetPlatformIndex = 2

\* C10: from the step that resolves a jump as a failure on, the pressing flag
\* is clear and no press is accepted; in that step the run becomes over.
C10_FailureIsImmediateAndFinal ==
    /\ [](HasFailed => (~isPressing /\ ~AcceptsPress))
    /\ [][(JumpResolves /\ score' = score) => (isGameOver' /\ ~isPressing')]_vars

\* C10 witness: a failed run whose game-over flag was reset by a later
\* destroyInstance
C10_Witness == HasFailed /\ ~isGameOver /\ instanceDestroyed

\* twice the distance of the judged point from the observed platform's
\* centre on the x axis and on the z axis
JudgedDistX2 == 2 * Abs(judged.point.x - plat.x)
JudgedDistZ2 == 2 * Abs(judged.point.z - plat.z)

\* C11: the landing test returns true exactly when on both horizontal axes
\* the distance of the point from the platform centre is at most half the
\* footprint plus 0.15; a point at distance half the footprint or half the
\* footprint plus 0.15 is on the platform, a point farther than that on
\* either axis is not.
C11_InclusiveRectangleWithTolerance ==
    judged.called =>
        /\ judged.result <=> (/\ JudgedDistX2 <= plat.sizeX + 2 * TOLERANCE
                              /\ JudgedDistZ2 <= plat.sizeZ + 2 * TOLERANCE)
        /\ (JudgedDistX2 = plat.sizeX /\ JudgedDistZ2 <= plat.sizeZ)
               => judged.result
        /\ (JudgedDistZ2 = plat.sizeZ /\ JudgedDistX2 <= plat.sizeX)
               => judged.result
        /\ (/\ JudgedDistX2 = plat.sizeX + 2 * TOLERANCE
            /\ JudgedDistZ2 = plat.sizeZ + 2 * TOLERANCE) => judged.result
        /\ (\/ JudgedDistX2 > plat.sizeX + 2 * TOLERANCE
            \/ JudgedDistZ2 > plat.sizeZ + 2 * TOLERANCE) => ~judged.result

\* C11 witness: a point at exactly half the footprint plus the tolerance on
\* both axes of a generated platform was judged to be on it
C11_Witness ==
    /\ judged.called /\ judged.result /\ ~plat.isStart
    /\ JudgedDistX2 = plat.sizeX + 2 * TOLERANCE
    /\ JudgedDistZ2 = plat.sizeZ + 2 * TOLERANCE

\* hold times (ms) with which the emitted power and the jump distance are
\* compared
HoldSamples == {h \in 0..MaxHold : h % 200 = 0}

\* the platforms the indices call current and target, the distance between
\* their centres and whether it is larger on the x axis
CurrentPlatform == platforms[currentPlatformIndex + 1]
TargetPlatform == platforms[targetPlatformIndex + 1]
TargetDeltaX == TargetPlatform.x - CurrentPlatform.x
TargetDeltaZ == TargetPlatform.z - CurrentPlatform.z
TravelsAlongX == Abs(TargetDeltaX) > Abs(TargetDeltaZ)
PlatformDistance == Max(Abs(TargetDeltaX), Abs(TargetDeltaZ))

\* C12: the power with which a release starts a jump is min(elapsed / 2000,
\* 1) for the time elapsed since the press: within [0, 1], exactly 1 from
\* 2000 ms on, and not below the power of any shorter hold.
C12_PowerIsClampedHoldTime ==
    [][JumpStarts =>
         LET elapsed == now - pressStartTime
         IN  /\ jumpPower' = (IF elapsed >= MAX_PRESS_TIME
                              THEN MAX_PRESS_TIME ELSE elapsed)
             /\ jumpPower' >= 0 /\ jumpPower' <= MAX_PRESS_TIME
             /\ elapsed >= MAX_PRESS_TIME => jumpPower' = MAX_PRESS_TIME
             /\ \A h \in HoldSamples :
                    h <= elapsed => Power(h) <= jumpPower']_vars

\* C12 witness: a jump has just been started by a release after a hold of
\* more than 2000 ms, with power 1
C12_Witness ==
    /\ isJumping /\ jumpProgress = 0
    /\ now - pressStartTime > MAX_PRESS_TIME
    /\ jumpPower = MAX_PRESS_TIME

C14_GeneratedPlatformGeometry ==
    /\ platforms[1].isStart
    /\ platforms[1].sizeX = START_SIZE /\ platforms[1].sizeZ = START_SIZE
    /\ \A i \in 2..Len(platforms) :
          LET a == platforms[i - 1]
              b == platforms[i]
              offsets == {100 * d : d \in MIN_DISTANCE..MAX_DISTANCE}
          IN  /\ ~b.isStart
              /\ \/ b.z = a.z /\ (a.x - b.x) \in offsets
                 \/ b.x = a.x /\ (a.z - b.z) \in offsets
              /\ b.sizeX >= BASE_SIZE /\ b.sizeX <= BASE_SIZE + 100
              /\ b.sizeZ >= BASE_SIZE /\ b.sizeZ <= BASE_SIZE + 100
    /\ MIN_DISTANCE = 4 /\ MAX_DISTANCE = 7 /\ BASE_SIZE = 200

\* C14 witness: four platforms, generated along both axes, the last one
\* with the smallest and the largest footprint drawn
C14_Witness ==
    /\ Len(platforms) >= 4
    /\ platforms[4].x # 0 /\ platforms[4].z # 0
    /\ platforms[4].sizeX = BASE_SIZE /\ platforms[4].sizeZ > BASE_SIZE + 90

\* C15: a jump's landing point lies from the character's position along the
\* axis with the larger distance between the current and target platform
\* centres, towards the target, at the jump distance; its coordinate on the
\* other horizontal axis is that of the target platform's centre.
C15_JumpIsAxisLocked ==
    [][JumpStarts =>
         LET dist == JumpDistance(PlatformDistance, jumpPower')
         IN  /\ jumpStartPosition' = playerPos
             /\ IF TravelsAlongX
                THEN /\ jumpTargetPosition'.x
                          = playerPos.x + Sign(TargetDeltaX) * dist
                     /\ jumpTargetPosition'.z = TargetPlatform.z
                ELSE /\ jumpTargetPosition'.z
                          = playerPos.z + Sign(TargetDeltaZ) * dist
                     /\ jumpTargetPosition'.x = TargetPlatform.x]_vars

\* C15 witness: a jump in flight whose landing point differs from its start
\* on both horizontal axes: the other coordinate was moved to the target
\* platform's centre
C15_Witness ==
    /\ isJumping
    /\ jumpStartPosition.x # jumpTargetPosition.x
    /\ jumpStartPosition.z # jumpTargetPosition.z

\* C16: a failed landing sets a fall direction that is one of the four
\* cardinal directions; short of the target platform's near edge on the
\* travel axis it is the travel direction reversed, beyond the far edge it
\* is the travel direction.
C16_FallDirectionByFailingSide ==
    [][(JumpResolves /\ isGameOver') =>
         LET travel == IF TravelsAlongX THEN Vec(Sign(TargetDeltaX), 0, 0)
                       ELSE Vec(0, 0, Sign(TargetDeltaZ))
             \* twice the signed distance past the target centre, along
             \* the travel direction
             past2 == IF TravelsAlongX
                      THEN 2 * travel.x * (playerPos'.x - TargetPlatform.x)
                      ELSE 2 * travel.z * (playerPos'.z - TargetPlatform.z)
             size == IF TravelsAlongX THEN TargetPlatform.sizeX
                     ELSE TargetPlatform.sizeZ
         IN  /\ fallDirection' \in {Vec(1, 0, 0), Vec(-1, 0, 0),
                                    Vec(0, 0, 1), Vec(0, 0, -1)}
             /\ past2 < -size
                  => fallDirection' = Vec(-travel.x, 0, -travel.z)
             /\ past2 > size => fallDirection' = travel]_vars

\* C16 witness: the character has just failed beyond the far edge of the
\* target platform and topples in the travel direction
C16_Witness ==
    /\ isGameOver /\ isFalling /\ fallProgress = 0
    /\ fallDirection = onJumpComplete.dir

\* the completion callback of the jump runs in this step: the success
\* branch counts the landing, the failure branch starts the toppling and
\* ends the run
CallbackFires ==
    \/ score' = score + 1
    \/ isGameOver' /\ isFalling' /\ fallProgress' = 0

\* C18: a step that ends a jump in flight, or changes its start, its
\* landing point or sets back its progress, is the step that resolves it
\* and fires its completion callback.
C18_JumpInFlightIsNotCancelled ==
    [][(isJumping /\ (\/ ~isJumping'
                      \/ jumpStartPosition' # jumpStartPosition
                      \/ jumpTargetPosition' # jumpTargetPosition
                      \/ jumpProgress' < jumpProgress))
          => (~isJumping' /\ jumpProgress' = JUMP_DURATION
                /\ CallbackFires)]_vars

C17_PlatformComesToRest ==
    <>(~plat.isFalling /\ plat.y = 0)

\* C20: a landing test repeated on the same point returns what it returned
\* before, whatever happened to the platform's height and bounding box in
\* between; its result is determined by the point, the centre and the
\* footprint; the call changes neither the platform nor the character nor
\* the engine.
C20_LandingTestIsPure ==
    /\ [](judged.repeated => judged.result = judged.previous)
    /\ [](judged.called => (judged.result <=> InFootprint(plat, judged.point)))
    /\ [][judged' # judged
            => (plat' = plat /\ UNCHANGED <<playerVars, engineVars>>)]_vars

\* C20 witness: the test was repeated on a point of a platform that has hit
\* the ground since it was created elevated, and whose bounding box is not
\* its footprint
C20_Witness ==
    /\ judged.repeated /\ ~plat.isStart /\ plat.y = 0
    /\ plat.boxX # plat.sizeX /\ plat.boxZ # plat.sizeZ

----------------------------------------------------------------------------
\* C21: a release that arrives while the pressing flag is false does nothing:
\* it starts no jump and leaves the character's position, the score, the
\* platform indices, the platform list and the game-over flag as they were.
C21_ReleaseWithoutPressIsNoOp ==
    [][(~isPressing /\ OnPressEnd) =>
          /\ ~JumpStarts
          /\ UNCHANGED <<playerPos, score, currentPlatformIndex,
                         targetPlatformIndex, platforms, isGameOver,
                         isJumping, jumpTargetPosition, onJumpComplete>>]_vars

\* a started game at rest after one landing, no press held: a release here
\* would have two platforms to jump between
C21_Witness ==
    /\ listenersAdded /\ uiAttached /\ isGameStarted /\ ~isGameOver
    /\ ~isPressing /\ ~isJumping /\ ~cameraMoving /\ score = 1

\* C22: a charge is ended only by a release, and that release starts a jump:
\* once a press has started a charge (pressing flag and charging flag set),
\* every step that clears either flag is a release that starts a jump.
C22_ChargeEndsOnlyByReleaseWithJump ==
    [][(isPressing /\ isCharging /\ (~isPressing' \/ ~isCharging')) =>
          (OnPressEnd /\ JumpStarts)]_vars

\* C23: the press duration is limited to 2000 ms: a press held beyond the
\* limit is ended by a forced jump, so after no frame is a press still held
\* that started more than MAX_PRESS_TIME ago.
C23_HeldPressForcesJumpAtLimit ==
    isPressing => now - pressStartTime <= MAX_PRESS_TIME

C25_GroundFollowsCurrentPlatform ==
    /\ [](~isGroundMoving => /\ ground.x = CurrentPlatform.x
                             /\ ground.z = CurrentPlatform.z)
    /\ [][(JumpResolves /\ score' = score + 1) =>
             LET d == ShiftAlongAxis(Vec(0, 0, 0), TargetDeltaX, TargetDeltaZ)
             IN  /\ cameraTargetPosition'.x - cameraTargetPosition.x = d.x
                 /\ cameraTargetPosition'.z - cameraTargetPosition.z = d.z
                 /\ groundTargetPosition'.x - groundTargetPosition.x = d.x
                 /\ groundTargetPosition'.z - groundTargetPosition.z = d.z]_vars

\* C26: input is not blocked for ever after a success: under continued
\* frames a camera transition in progress eventually completes, and a press
\* on a started, not-over game whose camera is at rest is accepted: it sets
\* the pressing flag, records the press time and starts the charge.
C26_CameraMoveEndsAndPressAccepted ==
    /\ (cameraMoving ~> ~cameraMoving)
    /\ [][(AcceptsPress /\ OnPressStart) =>
             /\ isPressing'
             /\ pressStartTime' = now
             /\ (~isJumping => isCharging')]_vars

\* a press accepted after the camera transition of a success has completed
C26_Witness ==
    /\ score = 1 /\ ~cameraMoving /\ ~isJumping
    /\ cameraMoveProgress = 10 * cameraMoveDistance /\ cameraMoveDistance > 0
    /\ isPressing /\ isCharging

\* C27: after any sequence of press, release and frame events of a run the
\* score equals the current platform index and the platform list is two
\* longer than that index: exactly one platform lies ahead of the current one.
C27_ScoreIndexAndOnePlatformAhead ==
    /\ score = currentPlatformIndex
    /\ Len(platforms) = currentPlatformIndex + 2

\* two landings made and the camera at rest again
C27_Witness ==
    currentPlatformIndex = 2 /\ targetPlatformIndex = 3 /\ ~cameraMoving

\* C28: a platform's height is never below 0, and a platform that is not
\* falling is at height exactly 0, also when its fall was stopped by the
\* page-visibility handler.
C28_RestingPlatformAtHeightZero ==
    /\ plat.y >= 0
    /\ ~plat.isFalling => plat.y = 0

\* C29: on every failed landing the character topples along the travel axis
\* (in the travel direction or against it), and the landing point is outside
\* the target platform's rectangle on some side, so that the last branch of
\* the fall-direction choice (the jump direction as a fallback) is not taken.
C29_FailureFallsAlongTravelAxis ==
    [][(JumpResolves /\ isGameOver') =>
         LET travel == IF TravelsAlongX THEN Vec(Sign(TargetDeltaX), 0, 0)
                       ELSE Vec(0, 0, Sign(TargetDeltaZ))
             tp == TargetPlatform
             pos == onJumpComplete.targetPosition
         IN  /\ fallDirection' \in {travel, Vec(-travel.x, 0, -travel.z)}
             /\ \/ 2 * pos.z < 2 * tp.z - tp.sizeZ
                \/ 2 * pos.z > 2 * tp.z + tp.sizeZ
                \/ 2 * pos.x < 2 * tp.x - tp.sizeX
                \/ 2 * pos.x > 2 * tp.x + tp.sizeX]_vars

\* a jump from the second platform has failed short of the third and the
\* character topples against the travel direction
C29_Witness ==
    /\ isGameOver /\ isFalling /\ score = 1 /\ onJumpComplete.set
    /\ fallDirection = Vec(-onJumpComplete.dir.x, 0, -onJumpComplete.dir.z)

\* C30: after destroyInstance the next getInstance(container) builds a new
\* engine and clears the destroyed flag: the instance it returns is in the
\* state the constructor leaves (two platforms, indices 0 and 1, score 0,
\* character at rest on the start platform), never the destroyed one.
C30_GetInstanceAfterDestroyIsFresh ==
    [][(instanceDestroyed /\ GetInstance) =>
         /\ ~instanceDestroyed'
         /\ Len(platforms') = 2
         /\ currentPlatformIndex' = 0 /\ targetPlatformIndex' = 1
         /\ score' = 0 /\ ~isGameOver'
         /\ playerPos' = Vec(0, PLATFORM_TOP, 0)
         /\ ~isJumping' /\ ~isFalling']_vars

====
